---- MODULE Spec2Model ----
(***************************************************************************)
(* Model of the NYC building-footprints ingestion pipeline:                *)
(*   src/main.py    process_feature, run_scraper, the NycBuilding mapping  *)
(*   src/init_db.py infer_pg_type                                          *)
(*                                                                         *)
(* JSON values of the feed are modelled as tagged records, Python's        *)
(* truthiness / int() / float() as operators over them, the table          *)
(* nyc_buildings as the sequence of its rows in insertion order, and       *)
(* run_scraper as a state machine whose steps are the fetch, the duplicate *)
(* filter loop and the commit of one page.                                 *)
(***************************************************************************)
EXTENDS Integers, Sequences, FiniteSets, TLC

(***************************************************************************)
(* Bounds of the model                                                     *)
(***************************************************************************)
\* total number of features the source holds, over all its pages
MaxFeatures == 3
\* number of times the pipeline is run against the same store
MaxRuns == 2
\* number of faults of the environment in one behaviour: requests that fail,
\* commits the store rejects for a reason of its own
MaxFaults == 1

(***************************************************************************)
(* Program constants                                                       *)
(***************************************************************************)
BATCH_SIZE == 1000

(***************************************************************************)
(* JSON / Python values                                                    *)
(***************************************************************************)
\* A value is [kind, chars, n]:
\*   none            JSON null, or what dict.get returns for an absent key
\*   str             a string, chars its characters
\*   int             an integer n
\*   real            a float: integer part n, chars the digits after the point
\*   list            a JSON array of n elements (a non-scalar value)
None == [kind |-> "none", chars |-> <<>>, n |-> 0]
StrV(s) == [kind |-> "str", chars |-> s, n |-> 0]
IntV(i) == [kind |-> "int", chars |-> <<>>, n |-> i]
RealV(w, f) == [kind |-> "real", chars |-> f, n |-> w]
ListV(len) == [kind |-> "list", chars |-> <<>>, n |-> len]

Digits == {"0", "1", "2", "3", "4", "5", "6", "7", "8", "9"}

DigitVal(c) ==
    CASE c = "0" -> 0 [] c = "1" -> 1 [] c = "2" -> 2 [] c = "3" -> 3
      [] c = "4" -> 4 [] c = "5" -> 5 [] c = "6" -> 6 [] c = "7" -> 7
      [] c = "8" -> 8 [] c = "9" -> 9

IsDigits(s) == Len(s) > 0 /\ \A i \in 1..Len(s) : s[i] \in Digits

RECURSIVE DigitsVal(_)
DigitsVal(s) ==
    IF s = <<>> THEN 0
    ELSE 10 * DigitsVal(SubSeq(s, 1, Len(s) - 1)) + DigitVal(s[Len(s)])

\* index of the first "." of s, 0 when there is none
DotAt(s) ==
    IF \E i \in 1..Len(s) : s[i] = "."
    THEN CHOOSE i \in 1..Len(s) : s[i] = "." /\ \A j \in 1..(i - 1) : s[j] # "."
    ELSE 0

\* bool(v): None, "", 0, 0.0 and [] are falsy
PyTruthy(v) ==
    CASE v.kind = "none" -> FALSE
      [] v.kind = "str" -> v.chars # <<>>
      [] v.kind = "int" -> v.n # 0
      [] v.kind = "real" -> ~(v.n = 0 /\ \A i \in 1..Len(v.chars) : v.chars[i] = "0")
      [] v.kind = "list" -> v.n # 0

\* the outcome of a call: exc is "none" or the exception class raised
Returned(v) == [exc |-> "none", val |-> v]
Raised(e) == [exc |-> e, val |-> None]

\* int(v): a decimal string or a number converts; another string raises
\* ValueError; None and a list raise TypeError
PyInt(v) ==
    CASE v.kind = "int" -> Returned(v)
      [] v.kind = "real" -> Returned(IntV(v.n))
      [] v.kind = "str" ->
            IF IsDigits(v.chars) THEN Returned(IntV(DigitsVal(v.chars)))
            ELSE Raised("ValueError")
      [] OTHER -> Raised("TypeError")

\* float(v): digits with an optional fraction convert; another string raises
\* ValueError; None and a list raise TypeError
PyFloat(v) ==
    CASE v.kind = "int" -> Returned(RealV(v.n, <<>>))
      [] v.kind = "real" -> Returned(v)
      [] v.kind = "str" ->
            LET d == DotAt(v.chars)
                w == SubSeq(v.chars, 1, d - 1)
                f == SubSeq(v.chars, d + 1, Len(v.chars))
            IN  IF d = 0
                THEN IF IsDigits(v.chars)
                     THEN Returned(RealV(DigitsVal(v.chars), <<>>))
                     ELSE Raised("ValueError")
                ELSE IF IsDigits(w) /\ IsDigits(f)
                     THEN Returned(RealV(DigitsVal(w), f))
                     ELSE Raised("ValueError")
      [] OTHER -> Raised("TypeError")

\* props.get(key): the value, None for an absent key
Get(props, key) == IF key \in DOMAIN props THEN props[key] ELSE None

(***************************************************************************)
(* process_feature                                                         *)
(***************************************************************************)
\* shape(geo).wkt: the WKT text of the geometry, of the type the source gave;
\* a geometry shape() cannot build (null, a type it does not know), here of
\* type "Unknown", makes it raise
ShapeWkt(geo) ==
    CASE geo.type = "Polygon" -> Returned(StrV(<<"POLYGON">>))
      [] geo.type = "MultiPolygon" -> Returned(StrV(<<"MULTIPOLYGON">>))
      [] geo.type = "Point" -> Returned(StrV(<<"POINT">>))
      [] geo.type = "LineString" -> Returned(StrV(<<"LINESTRING">>))
      [] OTHER -> Raised("ShapelyError")

\* int(x) if x else None, inside try / except ValueError
CoerceInt(v) ==
    IF PyTruthy(v)
    THEN LET r == PyInt(v) IN IF r.exc = "ValueError" THEN Returned(None) ELSE r
    ELSE Returned(None)

\* float(x) if x else None, inside try / except ValueError
CoerceFloat(v) ==
    IF PyTruthy(v)
    THEN LET r == PyFloat(v) IN IF r.exc = "ValueError" THEN Returned(None) ELSE r
    ELSE Returned(None)

\* variant: the constructor is not given raw_properties
NycBuildingNoRaw(props, c_year, h_roof, d_id, wkt) ==
    [bin |-> Get(props, "bin"),
     base_bbl |-> Get(props, "base_bbl"),
     construction_year |-> c_year,
     height_roof |-> h_roof,
     doitt_id |-> d_id,
     raw_properties |-> [k \in {} |-> None],
     geom |-> wkt]

\* the NycBuilding object the constructor call builds
NycBuilding(props, c_year, h_roof, d_id, wkt) ==
    [bin |-> Get(props, "bin"),
     base_bbl |-> Get(props, "base_bbl"),
     construction_year |-> c_year,
     height_roof |-> h_roof,
     doitt_id |-> d_id,
     raw_properties |-> props,
     geom |-> wkt]

NoObject == [bin |-> None, base_bbl |-> None, construction_year |-> None,
             height_roof |-> None, doitt_id |-> None,
             raw_properties |-> [k \in {} |-> None], geom |-> None]

\* process_feature(feature): [exc, obj]; exc is the exception that leaves the
\* function ("none" when it returns obj), raised in the order of the body
process_feature(feature) ==
    LET props == feature.properties
        g == ShapeWkt(feature.geometry)
        c_year == CoerceInt(Get(props, "construction_year"))
        h_roof == CoerceFloat(Get(props, "height_roof"))
        d_id == CoerceInt(Get(props, "doitt_id"))
    IN  IF g.exc # "none" THEN [exc |-> g.exc, obj |-> NoObject]
        ELSE IF c_year.exc # "none" THEN [exc |-> c_year.exc, obj |-> NoObject]
        ELSE IF h_roof.exc # "none" THEN [exc |-> h_roof.exc, obj |-> NoObject]
        ELSE IF d_id.exc # "none" THEN [exc |-> d_id.exc, obj |-> NoObject]
        ELSE [exc |-> "none",
              obj |-> NycBuilding(props, c_year.val, h_roof.val, d_id.val, g.val)]

(***************************************************************************)
(* The table nyc_buildings                                                 *)
(***************************************************************************)
\* the attributes of NycBuilding declared with Column(...); id is the row's
\* position in the table.  geom is assigned a bare Geometry type, not a
\* Column, so the mapper does not map it and INSERT does not write it.
MappedColumns ==
    {"bin", "base_bbl", "construction_year", "height_roof", "doitt_id",
     "raw_properties"}

\* the row INSERT writes for a pending object
Row(obj) == [c \in MappedColumns |-> obj[c]]

\* the geom a stored row holds: NULL for a row without the column
RowGeom(row) == IF "geom" \in DOMAIN row THEN row.geom ELSE None

\* the values of the bin column
StoredBins(table) == {table[i].bin : i \in 1..Len(table)}

\* variant: the table has no unique index on bin
UniqueViolationNever(table, objs) == FALSE

\* the unique index on bin rejects the INSERT of objs: a non-NULL bin that a
\* row already holds, or that two of the objects share (NULLs never collide)
UniqueViolation(table, objs) ==
    \/ \E i \in 1..Len(objs) :
          objs[i].bin # None /\ objs[i].bin \in StoredBins(table)
    \/ \E i, j \in 1..Len(objs) :
          i # j /\ objs[i].bin # None /\ objs[i].bin = objs[j].bin

\* variant: the batch replaces the table's rows
CommittedReplace(table, objs) == [i \in 1..Len(objs) |-> Row(objs[i])]

\* variant: only the first object of the batch is inserted
CommittedFirstOnly(table, objs) == table \o <<Row(objs[1])>>

\* session.add_all(objs); session.commit() that succeeds
Committed(table, objs) == table \o [i \in 1..Len(objs) |-> Row(objs[i])]

\* variant: the first object of the batch stays in the table
RolledBackPartial(table, objs) == table \o <<Row(objs[1])>>

\* session.rollback() after a failed commit: the transaction leaves nothing
RolledBack(table, objs) == table

(***************************************************************************)
(* run_scraper: the duplicate filter                                       *)
(***************************************************************************)
\* [f['properties'].get('bin') for f in features if f['properties'].get('bin')]
BatchBins(feats) ==
    LET b(i) == Get(feats[i].properties, "bin")
    IN  {b(i) : i \in {j \in 1..Len(feats) : PyTruthy(b(j))}}

\* variant: the lookup finds no row
ExistingBinsNoLookup(table, batch_bins) == {}

\* session.query(NycBuilding.bin).filter(NycBuilding.bin.in_(batch_bins)),
\* run only for a non-empty batch_bins
ExistingBins(table, batch_bins) ==
    IF batch_bins = {} THEN {} ELSE StoredBins(table) \cap batch_bins

\* the loop over the page from feature i on: existing is existing_bins, acc is
\* new_objects; an exception of process_feature leaves the loop and the run
RECURSIVE FilterLoop(_, _, _, _)
FilterLoop(feats, i, existing, acc) ==
    IF i > Len(feats) THEN [exc |-> "none", new_objects |-> acc]
    ELSE LET bin_id == Get(feats[i].properties, "bin")
         IN  IF bin_id \notin existing
             THEN LET r == process_feature(feats[i])
                  IN  IF r.exc # "none"
                      THEN [exc |-> r.exc, new_objects |-> acc]
                      ELSE FilterLoop(feats, i + 1, existing \cup {bin_id},
                                      Append(acc, r.obj))
             ELSE FilterLoop(feats, i + 1, existing, acc)

\* lines 119-137 for one page against the table
FilterPage(feats, table) ==
    FilterLoop(feats, 1, ExistingBins(table, BatchBins(feats)), <<>>)

\* variant: the cursor counts pages, not records
AdvanceOffsetByOne(o) == o + 1

\* offset += BATCH_SIZE
AdvanceOffset(o) == o + BATCH_SIZE

(***************************************************************************)
(* The source feed                                                         *)
(***************************************************************************)
Feature(geoType, props) == [geometry |-> [type |-> geoType], properties |-> props]

BinA == StrV(<<"A">>)
BinB == StrV(<<"B">>)
BinEmpty == StrV(<<>>)
Y1990 == StrV(<<"1", "9", "9", "0">>)
NA == StrV(<<"N", "/", "A">>)
H12p5 == StrV(<<"1", "2", ".", "5">>)

\* the features the pipeline's source is built from
SourceFeatures ==
    { Feature("Polygon",
              [bin |-> BinA, base_bbl |-> StrV(<<"X">>), construction_year |-> Y1990,
               height_roof |-> H12p5, doitt_id |-> StrV(<<"7">>)]),
      Feature("MultiPolygon",
              [bin |-> BinB, construction_year |-> NA, height_roof |-> BinEmpty]),
      Feature("Point", [base_bbl |-> StrV(<<"X">>), bin |-> None]),
      Feature("Polygon", [bin |-> BinEmpty, doitt_id |-> StrV(<<"7">>)]),
      Feature("Unknown", [bin |-> BinA]) }

\* the pages of 1..n features
RECURSIVE PagesUpTo(_)
PagesUpTo(n) ==
    IF n = 0 THEN {}
    ELSE LET shorter == PagesUpTo(n - 1)
         IN  {<<f>> : f \in SourceFeatures}
               \cup shorter
               \cup {Append(pg, f) : pg \in {q \in shorter : Len(q) = n - 1},
                                     f \in SourceFeatures}

\* the sources of at most n features: a source is the sequence of its
\* non-empty pages, page k being the answer to $offset = (k - 1) * BATCH_SIZE
RECURSIVE SourcesUpTo(_)
SourcesUpTo(n) ==
    {<<>>} \cup
    UNION { {<<pg>> \o rest : rest \in SourcesUpTo(n - Len(pg))} : pg \in PagesUpTo(n) }

\* response.json().get('features', []) of the request at offset o
PageAt(src, o) ==
    LET k == (o \div BATCH_SIZE) + 1
    IN  IF k <= Len(src) THEN src[k] ELSE <<>>

(***************************************************************************)
(* State                                                                   *)
(***************************************************************************)
VARIABLES
    source,          \* the feed: what the endpoint answers at each offset
    store,           \* the rows of nyc_buildings, in insertion order
    run,             \* which run of the pipeline this is
    pc,              \* where run_scraper is: fetch, filter, commit, or ended
    offset,          \* run_scraper's offset
    total_inserted,  \* run_scraper's total_inserted
    features,        \* the page in hand
    new_objects,     \* the objects the filter loop has built for the page
    log,             \* the last line printed
    exc,             \* the exception that left run_scraper uncaught, or "none"
    fetches,         \* requests this run has sent
    rollbacks,       \* batches this run has rolled back
    faults,          \* faults of the environment so far
    prev,            \* the previous run: how it ended, what it rolled back
    store_at_start,  \* the table as this run found it
    queries,         \* duplicate-lookup queries this run has sent
    rolled,          \* the batches this run has rolled back, with their offsets
    samples,         \* infer_pg_type's argument
    pg_type,         \* infer_pg_type's result, "none" before the call
    peer             \* a second run_scraper process on the same table

vars == <<source, store, run, pc, offset, total_inserted, features, new_objects,
          log, exc, fetches, rollbacks, faults, prev, store_at_start, queries, rolled, samples, pg_type, peer>>

Ended == {"done", "failed", "crashed"}

NoRun == [end |-> "none", rolled_back |-> FALSE, rolled |-> <<>>]

\* a process that is not running
Idle == [pc |-> "idle", offset |-> 0, total_inserted |-> 0, features |-> <<>>,
         new_objects |-> <<>>, log |-> "none", fetches |-> 0]

Init ==
    /\ source \in SourcesUpTo(MaxFeatures)
    /\ store = <<>>
    /\ run = 1
    /\ pc = "fetch"
    /\ offset = 0
    /\ total_inserted = 0
    /\ features = <<>>
    /\ new_objects = <<>>
    /\ log = "starting"
    /\ exc = "none"
    /\ fetches = 0
    /\ rollbacks = 0
    /\ faults = 0
    /\ prev = NoRun
    /\ store_at_start = <<>>
    /\ queries = 0
    /\ rolled = <<>>
    /\ samples = <<>>
    /\ pg_type = "none"
    /\ peer = Idle

(***************************************************************************)
(* run_scraper, one step at a time                                         *)
(***************************************************************************)
\* the request succeeds and the page holds features
FetchPage ==
    /\ pc = "fetch"
    /\ PageAt(source, offset) # <<>>
    /\ features' = PageAt(source, offset)
    /\ fetches' = fetches + 1
    /\ log' = "fetching"
    /\ pc' = "filter"
    /\ UNCHANGED <<source, store, run, offset, total_inserted, new_objects, exc,
                   rollbacks, faults, prev, store_at_start, queries, rolled, samples, pg_type, peer>>

\* the request succeeds and the page is empty: break, then the summary
FetchEmpty ==
    /\ pc = "fetch"
    /\ PageAt(source, offset) = <<>>
    /\ features' = <<>>
    /\ fetches' = fetches + 1
    /\ log' = "finished"
    /\ pc' = "done"
    /\ UNCHANGED <<source, store, run, offset, total_inserted, new_objects, exc,
                   rollbacks, faults, prev, store_at_start, queries, rolled, samples, pg_type, peer>>

\* variant: a failed request is logged and the page skipped
FetchErrorSkips ==
    /\ pc = "fetch"
    /\ faults < MaxFaults
    /\ faults' = faults + 1
    /\ fetches' = fetches + 1
    /\ log' = "api_error"
    /\ offset' = offset + BATCH_SIZE
    /\ pc' = "fetch"
    /\ UNCHANGED <<source, store, run, total_inserted, features, new_objects, exc,
                   rollbacks, prev, store_at_start, queries, rolled, samples, pg_type, peer>>

\* requests.get, raise_for_status or response.json raises: break, then the
\* summary
FetchError ==
    /\ pc = "fetch"
    /\ faults < MaxFaults
    /\ faults' = faults + 1
    /\ fetches' = fetches + 1
    /\ log' = "api_error"
    /\ pc' = "failed"
    /\ UNCHANGED <<source, store, run, offset, total_inserted, features,
                   new_objects, exc, rollbacks, prev, store_at_start, queries, rolled, samples, pg_type, peer>>

\* variant: one query for each bin of the page
QueryCountPerBin(batch_bins) == Cardinality(batch_bins)

\* the queries the lookup of a page sends: one, and none when the page holds no
\* bin to look up (if batch_bins:)
QueryCount(batch_bins) == IF batch_bins = {} THEN 0 ELSE 1

\* the duplicate lookup and the loop that builds new_objects; an exception of
\* process_feature is caught nowhere and ends the process
Filter ==
    /\ pc = "filter"
    /\ LET r == FilterPage(features, store)
       IN  /\ new_objects' = r.new_objects
           /\ exc' = r.exc
           /\ pc' = IF r.exc = "none" THEN "commit" ELSE "crashed"
    /\ queries' = queries + QueryCount(BatchBins(features))
    /\ UNCHANGED <<source, store, run, offset, total_inserted, features, log,
                   fetches, rollbacks, faults, prev, store_at_start, rolled,
                   samples, pg_type, peer>>

\* add_all and commit succeed
CommitOk ==
    /\ pc = "commit"
    /\ new_objects # <<>>
    /\ ~UniqueViolation(store, new_objects)
    /\ store' = Committed(store, new_objects)
    /\ total_inserted' = total_inserted + Len(new_objects)
    /\ log' = "inserted"
    /\ offset' = AdvanceOffset(offset)
    /\ pc' = "fetch"
    /\ UNCHANGED <<source, run, features, new_objects, exc, fetches, rollbacks,
                   faults, prev, store_at_start, queries, rolled, samples, pg_type, peer>>

\* commit raises, on the unique index or for a reason of the store's own:
\* rollback
CommitFail ==
    /\ pc = "commit"
    /\ new_objects # <<>>
    /\ \/ /\ UniqueViolation(store, new_objects)
          /\ faults' = faults
       \/ /\ ~UniqueViolation(store, new_objects)
          /\ faults < MaxFaults
          /\ faults' = faults + 1
    /\ store' = RolledBack(store, new_objects)
    /\ rollbacks' = rollbacks + 1
    /\ rolled' = Append(rolled, [offset |-> offset, batch |-> new_objects])
    /\ log' = "db_error"
    /\ offset' = AdvanceOffset(offset)
    /\ pc' = "fetch"
    /\ UNCHANGED <<source, run, total_inserted, features, new_objects, exc,
                   fetches, prev, store_at_start, queries, samples, pg_type,
                   peer>>

\* variant: the cursor advances only when a batch was committed
CommitSkipNoAdvance ==
    /\ pc = "commit"
    /\ new_objects = <<>>
    /\ log' = "skipped"
    /\ pc' = "fetch"
    /\ UNCHANGED <<source, store, run, offset, total_inserted, features,
                   new_objects, exc, fetches, rollbacks, faults, prev,
                   store_at_start, queries, rolled, samples, pg_type, peer>>

\* nothing new in the page
CommitSkip ==
    /\ pc = "commit"
    /\ new_objects = <<>>
    /\ log' = "skipped"
    /\ offset' = AdvanceOffset(offset)
    /\ pc' = "fetch"
    /\ UNCHANGED <<source, store, run, total_inserted, features, new_objects, exc,
                   fetches, rollbacks, faults, prev, store_at_start, queries, rolled, samples, pg_type, peer>>

\* the pipeline is started again, against the same source and store
StartRun ==
    /\ pc \in Ended
    /\ run < MaxRuns
    /\ run' = run + 1
    /\ prev' = [end |-> pc, rolled_back |-> rollbacks > 0, rolled |-> rolled]
    /\ queries' = 0
    /\ rolled' = <<>>
    /\ store_at_start' = store
    /\ offset' = 0
    /\ total_inserted' = 0
    /\ features' = <<>>
    /\ new_objects' = <<>>
    /\ log' = "starting"
    /\ exc' = "none"
    /\ fetches' = 0
    /\ rollbacks' = 0
    /\ pc' = "fetch"
    /\ UNCHANGED <<source, store, faults, samples, pg_type, peer>>

Next ==
    \/ FetchPage
    \/ FetchEmpty
    \/ FetchError
    \/ Filter
    \/ CommitOk
    \/ CommitFail
    \/ CommitSkip
    \/ StartRun

Spec == Init /\ [][Next]_vars

(***************************************************************************)
(* process_feature on its own: one call on one feature                     *)
(***************************************************************************)
GeometryTypes == {"Polygon", "MultiPolygon", "Point", "LineString", "Unknown"}

\* what the feed may hold under a key of the properties
SourceValues ==
    {None, BinEmpty, Y1990, NA, H12p5, IntV(0), IntV(7), RealV(12, <<"5">>),
     ListV(0), ListV(1)}

AllProperties ==
    {[bin |-> b, base_bbl |-> StrV(<<"X">>), construction_year |-> y,
      height_roof |-> h, doitt_id |-> d] :
        b \in {None, BinA}, y \in SourceValues, h \in SourceValues,
        d \in SourceValues}
    \cup {[bin |-> BinA], [k \in {} |-> None]}

AllFeatures == {Feature(g, p) : g \in GeometryTypes, p \in AllProperties}

InitFeature ==
    /\ features \in {<<f>> : f \in AllFeatures}
    /\ pc = "call"
    /\ source = <<>>
    /\ store = <<>>
    /\ run = 1
    /\ offset = 0
    /\ total_inserted = 0
    /\ new_objects = <<>>
    /\ log = "starting"
    /\ exc = "none"
    /\ fetches = 0
    /\ rollbacks = 0
    /\ faults = 0
    /\ prev = NoRun
    /\ store_at_start = <<>>
    /\ queries = 0
    /\ rolled = <<>>
    /\ samples = <<>>
    /\ pg_type = "none"
    /\ peer = Idle

\* process_feature(features[0]): the object it returns, or the exception
CallProcessFeature ==
    /\ pc = "call"
    /\ LET r == process_feature(features[1])
       IN  /\ new_objects' = IF r.exc = "none" THEN <<r.obj>> ELSE <<>>
           /\ exc' = r.exc
           /\ pc' = IF r.exc = "none" THEN "returned" ELSE "raised"
    /\ UNCHANGED <<source, store, run, offset, total_inserted, features, log,
                   fetches, rollbacks, faults, prev, store_at_start, queries, rolled, samples, pg_type, peer>>

NextFeature == CallProcessFeature

SpecFeature == InitFeature /\ [][NextFeature]_vars

(***************************************************************************)
(* Two run_scraper processes on the same table                             *)
(***************************************************************************)
\* what a step of the second process leaves alone, the table apart
OwnVars == <<source, run, pc, offset, total_inserted, features, new_objects, log,
             exc, fetches, rollbacks, prev, store_at_start, queries, rolled,
             samples, pg_type>>

\* total number of features the source holds when two processes read it
MaxConcFeatures == 2

\* both processes are started on the table as it is
InitConc ==
    /\ source \in SourcesUpTo(MaxConcFeatures)
    /\ store = <<>>
    /\ run = 1
    /\ pc = "fetch"
    /\ offset = 0
    /\ total_inserted = 0
    /\ features = <<>>
    /\ new_objects = <<>>
    /\ log = "starting"
    /\ exc = "none"
    /\ fetches = 0
    /\ rollbacks = 0
    /\ faults = 0
    /\ prev = NoRun
    /\ store_at_start = <<>>
    /\ queries = 0
    /\ rolled = <<>>
    /\ samples = <<>>
    /\ pg_type = "none"
    /\ peer = [Idle EXCEPT !.pc = "fetch", !.log = "starting"]

\* the request succeeds and the page holds features
PeerFetchPage ==
    /\ peer.pc = "fetch"
    /\ PageAt(source, peer.offset) # <<>>
    /\ peer' = [peer EXCEPT !.features = PageAt(source, peer.offset),
                            !.fetches = @ + 1,
                            !.log = "fetching",
                            !.pc = "filter"]
    /\ UNCHANGED <<OwnVars, store, faults>>

\* the request succeeds and the page is empty
PeerFetchEmpty ==
    /\ peer.pc = "fetch"
    /\ PageAt(source, peer.offset) = <<>>
    /\ peer' = [peer EXCEPT !.features = <<>>,
                            !.fetches = @ + 1,
                            !.log = "finished",
                            !.pc = "done"]
    /\ UNCHANGED <<OwnVars, store, faults>>

\* the duplicate lookup, on the table as it is now, and the loop
PeerFilter ==
    /\ peer.pc = "filter"
    /\ LET r == FilterPage(peer.features, store)
       IN  peer' = [peer EXCEPT !.new_objects = r.new_objects,
                               !.pc = IF r.exc = "none" THEN "commit" ELSE "crashed"]
    /\ UNCHANGED <<OwnVars, store, faults>>

\* add_all and commit succeed
PeerCommitOk ==
    /\ peer.pc = "commit"
    /\ peer.new_objects # <<>>
    /\ ~UniqueViolation(store, peer.new_objects)
    /\ store' = Committed(store, peer.new_objects)
    /\ peer' = [peer EXCEPT !.total_inserted = @ + Len(peer.new_objects),
                            !.log = "inserted",
                            !.offset = AdvanceOffset(@),
                            !.pc = "fetch"]
    /\ UNCHANGED <<OwnVars, faults>>

\* commit raises: rollback
PeerCommitFail ==
    /\ peer.pc = "commit"
    /\ peer.new_objects # <<>>
    /\ \/ /\ UniqueViolation(store, peer.new_objects)
          /\ faults' = faults
       \/ /\ ~UniqueViolation(store, peer.new_objects)
          /\ faults < MaxFaults
          /\ faults' = faults + 1
    /\ store' = RolledBack(store, peer.new_objects)
    /\ peer' = [peer EXCEPT !.log = "db_error",
                            !.offset = AdvanceOffset(@),
                            !.pc = "fetch"]
    /\ UNCHANGED OwnVars

\* nothing new in the page
PeerCommitSkip ==
    /\ peer.pc = "commit"
    /\ peer.new_objects = <<>>
    /\ peer' = [peer EXCEPT !.log = "skipped",
                            !.offset = AdvanceOffset(@),
                            !.pc = "fetch"]
    /\ UNCHANGED <<OwnVars, store, faults>>

NextConc ==
    \/ FetchPage
    \/ FetchEmpty
    \/ Filter
    \/ CommitOk
    \/ CommitFail
    \/ CommitSkip
    \/ PeerFetchPage
    \/ PeerFetchEmpty
    \/ PeerFilter
    \/ PeerCommitOk
    \/ PeerCommitFail
    \/ PeerCommitSkip

SpecConc == InitConc /\ [][NextConc]_vars

(***************************************************************************)
(* infer_pg_type on its own: one call on one list of samples               *)
(***************************************************************************)
\* longest list of samples
MaxSamples == 3

\* the values a property has in the sampled features
SampleValues ==
    { None, StrV(<<"1", "2">>), StrV(<<"1", "2", ".", "5">>), StrV(<<"N", "/", "A">>),
      StrV(<<>>), IntV(7), RealV(12, <<"5">>), ListV(0) }

RECURSIVE SamplesUpTo(_)
SamplesUpTo(n) ==
    IF n = 0 THEN {<<>>}
    ELSE LET shorter == SamplesUpTo(n - 1)
         IN  shorter \cup {Append(vs, v) : vs \in {q \in shorter : Len(q) = n - 1},
                                           v \in SampleValues}

\* the for loop of infer_pg_type from the i-th sample on: a None is skipped;
\* the first other sample returns BIGINT when int(v) does not raise, NUMERIC
\* when float(v) does not raise, TEXT otherwise (the bare except clauses catch
\* every exception class)
RECURSIVE InferFrom(_, _)
InferFrom(values, i) ==
    IF i > Len(values) THEN "TEXT"
    ELSE IF values[i] = None THEN InferFrom(values, i + 1)
    ELSE IF PyInt(values[i]).exc = "none" THEN "BIGINT"
    ELSE IF PyFloat(values[i]).exc = "none" THEN "NUMERIC"
    ELSE "TEXT"

infer_pg_type(values) == InferFrom(values, 1)

InitInfer ==
    /\ samples \in SamplesUpTo(MaxSamples)
    /\ pg_type = "none"
    /\ pc = "call"
    /\ features = <<>>
    /\ source = <<>>
    /\ store = <<>>
    /\ run = 1
    /\ offset = 0
    /\ total_inserted = 0
    /\ new_objects = <<>>
    /\ log = "starting"
    /\ exc = "none"
    /\ fetches = 0
    /\ rollbacks = 0
    /\ faults = 0
    /\ prev = NoRun
    /\ store_at_start = <<>>
    /\ queries = 0
    /\ rolled = <<>>
    /\ peer = Idle

\* pg_type = infer_pg_type(values)
CallInferPgType ==
    /\ pc = "call"
    /\ pg_type' = infer_pg_type(samples)
    /\ pc' = "returned"
    /\ UNCHANGED <<source, store, run, offset, total_inserted, features,
                   new_objects, log, exc, fetches, rollbacks, faults, prev,
                   store_at_start, queries, rolled, samples, peer>>

NextInfer == CallInferPgType

SpecInfer == InitInfer /\ [][NextInfer]_vars

(***************************************************************************)
(* Properties                                                              *)
(***************************************************************************)
AllFeaturesOf(src) ==
    UNION {{src[k][i] : i \in 1..Len(src[k])} : k \in 1..Len(src)}

\* every record of the source has a bin that is not null
AllBinsNonNull == \A f \in AllFeaturesOf(source) : Get(f.properties, "bin") # None

\* every record of the source has a bin that is not null and not empty
AllBinsTruthy == \A f \in AllFeaturesOf(source) : PyTruthy(Get(f.properties, "bin"))

\* this run follows a run that reached the empty page, and has reached it too
SecondCompletedRun == run > 1 /\ prev.end = "done" /\ pc = "done"

\* C1, as stated: whenever two consecutive runs over the unchanged source both
\* run to completion, the second passes no record to commit, inserts nothing
\* and leaves the store as the first run left it.
C1_IdempotentAnySource ==
    SecondCompletedRun =>
        /\ total_inserted = 0
        /\ rollbacks = 0
        /\ store = store_at_start

\* C1, amended: for a source whose records all have a non-null bin, when the
\* first run completed without a failed commit and the second run completes,
\* the second run inserts nothing and leaves the store as the first run left
\* it; when moreover no bin is the empty string, the second run passes no
\* record to commit at all.
C1_IdempotentKeyedSource ==
    (SecondCompletedRun /\ ~prev.rolled_back /\ AllBinsNonNull) =>
        /\ total_inserted = 0
        /\ store = store_at_start
        /\ AllBinsTruthy => rollbacks = 0

\* a second completed run over two pages of keyed records that the first run
\* stored
C1_Witness ==
    /\ SecondCompletedRun /\ ~prev.rolled_back /\ AllBinsTruthy
    /\ Len(source) = 2
    /\ Len(store) >= 2
    /\ fetches = 3

\* C2: the cursor starts at 0, is a multiple of BATCH_SIZE in every state, and
\* the step that ends a page (inserted, all skipped, or rolled back) adds
\* exactly BATCH_SIZE to it; no other step of a run changes it.
C2_CursorAdvance ==
    /\ [](offset % BATCH_SIZE = 0 /\ (fetches = 0 => offset = 0))
    /\ [][ /\ pc = "commit" =>
               /\ log' \in {"inserted", "skipped", "db_error"}
               /\ offset' = offset + BATCH_SIZE
           /\ pc \in {"fetch", "filter"} => offset' = offset ]_vars

\* the cursor after two pages, one inserted and one rolled back
C2_Witness ==
    /\ offset = 2 * BATCH_SIZE
    /\ total_inserted >= 1
    /\ rollbacks = 1

\* C3, as stated: a run that ended without a fetch error reached the empty
\* page, and sent exactly one request per non-empty page plus the one that
\* returned the empty page.
C3_ExactFetches ==
    (pc \in Ended /\ pc # "failed") =>
        /\ pc = "done"
        /\ fetches = Len(source) + 1

\* C4, as stated: a run ends in one of two ways only, done after a request
\* that returned an empty page, failed after a request that raised.
C4_TwoWaysToEnd ==
    pc \in Ended =>
        \/ pc = "done" /\ log = "finished" /\ PageAt(source, offset) = <<>>
        \/ pc = "failed" /\ log = "api_error"

\* C5: the step in which a batch's commit fails leaves the table and
\* total_inserted as they were, advances the cursor by BATCH_SIZE and goes
\* back to fetching.
C5_RollbackAtomic ==
    [][ (pc = "commit" /\ log' = "db_error") =>
            /\ store' = store
            /\ total_inserted' = total_inserted
            /\ offset' = offset + BATCH_SIZE
            /\ pc' = "fetch" ]_vars

\* a batch of two objects was rolled back on the unique index, the table
\* holding rows already
C5_Witness ==
    /\ log = "db_error"
    /\ pc = "fetch"
    /\ Len(new_objects) = 2
    /\ Len(store) >= 1
    /\ UniqueViolation(store, new_objects)
    /\ total_inserted = Len(store)

IsKeyed(obj) == obj.bin # None

\* the objects of the features of feats, from index i on, whose bin is not
\* null, is in no row of table and is the bin of no earlier feature of feats
RECURSIVE NewKeyedFrom(_, _, _)
NewKeyedFrom(feats, table, i) ==
    IF i > Len(feats) THEN <<>>
    ELSE LET b == Get(feats[i].properties, "bin")
             rest == NewKeyedFrom(feats, table, i + 1)
         IN  IF /\ b # None
                /\ b \notin StoredBins(table)
                /\ \A j \in 1..(i - 1) : Get(feats[j].properties, "bin") # b
             THEN <<process_feature(feats[i]).obj>> \o rest
             ELSE rest

\* C6, as stated: the keyed records a page passes to commit are, in page
\* order, those whose bin is neither persisted nor the bin of an earlier record
\* of the page.
C6_FilterOutput ==
    pc = "commit" => SelectSeq(new_objects, IsKeyed) = NewKeyedFrom(features, store, 1)

\* C7, as stated: every record of the page without a bin is passed to commit.
C7_KeylessNeverDeduplicated ==
    pc = "commit" =>
        Cardinality({i \in 1..Len(new_objects) : new_objects[i].bin = None})
          = Cardinality({i \in 1..Len(features) :
                            Get(features[i].properties, "bin") = None})

GeometryParses(feature) == ShapeWkt(feature.geometry).exc = "none"

\* C8, as stated: the filter step of a page that holds a feature whose geometry
\* does not parse drops that feature only: it goes on to commit, with the
\* objects the page without that feature yields.
C8_GeometryFailureRecordScoped ==
    [][ (pc = "filter" /\ \E i \in 1..Len(features) : ~GeometryParses(features[i])) =>
            /\ pc' = "commit"
            /\ new_objects'
                 = FilterPage(SelectSeq(features, GeometryParses), store).new_objects
      ]_vars

\* C9, as stated: every row of the table holds a multi-polygon geometry.
C9_StoredGeomMultiPolygon ==
    \A i \in 1..Len(store) : RowGeom(store[i]) = StrV(<<"MULTIPOLYGON">>)

IntConvertible(v) == PyTruthy(v) /\ PyInt(v).exc = "none"
FloatConvertible(v) == PyTruthy(v) /\ PyFloat(v).exc = "none"

\* C10, as stated: on a feature whose geometry parses, process_feature returns
\* an object; a typed field whose source value is missing, empty or not
\* convertible is null in it, a convertible one is converted, and bin, base_bbl
\* and raw_properties are the source's.
C10_CoercionNeverRaises ==
    (pc \in {"returned", "raised"} /\ GeometryParses(features[1])) =>
        LET props == features[1].properties
            y == Get(props, "construction_year")
            h == Get(props, "height_roof")
            d == Get(props, "doitt_id")
        IN  /\ pc = "returned"
            /\ new_objects[1].construction_year
                 = IF IntConvertible(y) THEN PyInt(y).val ELSE None
            /\ new_objects[1].height_roof
                 = IF FloatConvertible(h) THEN PyFloat(h).val ELSE None
            /\ new_objects[1].doitt_id
                 = IF IntConvertible(d) THEN PyInt(d).val ELSE None
            /\ new_objects[1].bin = Get(props, "bin")
            /\ new_objects[1].base_bbl = Get(props, "base_bbl")
            /\ new_objects[1].raw_properties = props

C13_FetchFailureEndsRun ==
    /\ [](pc = "failed" => (log = "api_error" /\ offset = BATCH_SIZE * (fetches - 1)))
    /\ [][ log' = "api_error" =>
               /\ pc = "fetch"
               /\ pc' = "failed"
               /\ offset' = offset
               /\ store' = store
               /\ total_inserted' = total_inserted ]_vars
    /\ [][ pc = "failed" => (run' = run + 1 /\ store' = store) ]_vars

\* the request at offset BATCH_SIZE failed after the first page was committed
C13_Witness ==
    /\ pc = "failed"
    /\ offset = BATCH_SIZE
    /\ fetches = 2
    /\ total_inserted >= 1
    /\ Len(store) = total_inserted

\* C14: every step, of this run or of a later one, leaves each row of the table
\* in place and as it was: the table before the step is a prefix of the table
\* after it.
C14_AppendOnly ==
    [][ /\ Len(store') >= Len(store)
        /\ SubSeq(store', 1, Len(store)) = store ]_vars

\* a later run has skipped a page whose bins the table already held
C14_Witness ==
    /\ run > 1
    /\ log = "skipped"
    /\ Len(store) >= 2
    /\ store = store_at_start
    /\ \A i \in 1..Len(features) :
           Get(features[i].properties, "bin") \in StoredBins(store)

\* C15: the k-th request of a run (k = 0, 1, ...) is sent at offset
\* k * BATCH_SIZE; a page goes through fetch, then the duplicate lookup and
\* filter, then the commit, and only then is the next request sent; the table
\* is written by the commit step alone, so the objects being committed are
\* those the filter yields on the table as it still is.
C15_StrictPageOrder ==
    /\ [](pc = "commit" => new_objects = FilterPage(features, store).new_objects)
    /\ [][ fetches' = fetches + 1 =>
               (pc = "fetch" /\ offset = BATCH_SIZE * fetches) ]_vars
    /\ [][ pc = "fetch" =>
               (pc' \in {"filter", "done", "failed"} /\ store' = store) ]_vars
    /\ [][ pc = "filter" =>
               /\ pc' \in {"commit", "crashed"}
               /\ store' = store
               /\ fetches' = fetches ]_vars
    /\ [][ pc = "commit" =>
               /\ pc' = "fetch"
               /\ fetches' = fetches
               /\ store' \in {store, Committed(store, new_objects)} ]_vars

\* a run that requested offsets 0, BATCH_SIZE and 2 * BATCH_SIZE, skipping a
\* fully deduplicated page on the way
C15_Witness ==
    /\ pc = "done"
    /\ fetches = 3
    /\ offset = 2 * BATCH_SIZE
    /\ total_inserted = 1
    /\ rollbacks = 0

\* C17: in every state of a run, total_inserted is the number of rows the
\* table has gained since the run started.
C17_TotalInsertedExact ==
    /\ Len(store) >= Len(store_at_start)
    /\ total_inserted = Len(store) - Len(store_at_start)

\* a finished later run that committed a batch of two and rolled another back
C17_Witness ==
    /\ pc = "done"
    /\ run > 1
    /\ total_inserted = 2
    /\ rollbacks = 1
    /\ Len(store_at_start) >= 1

\* C19, as stated: no batch handed to commit holds an object whose non-null bin
\* is in a row of the table or in another object of the batch, so the unique
\* index never rejects a batch.
C19_FilterPreventsUniqueViolation ==
    pc = "commit" => ~UniqueViolation(store, new_objects)

\* the pages this run has put through the duplicate filter
PagesFiltered ==
    IF pc \in {"commit", "crashed"} THEN (offset \div BATCH_SIZE) + 1
    ELSE offset \div BATCH_SIZE

\* C18, as stated: a run has sent one lookup query for each non-empty page it
\* has put through the duplicate filter, whatever the page holds.
C18_OneQueryPerPage ==
    pc # "filter" => queries = PagesFiltered

\* C18, amended: a run has sent one lookup query for each filtered page that
\* holds at least one non-null, non-empty bin and none for the others, so never
\* more than one a page and never one a record.
C18_OneQueryPerKeyedPage ==
    /\ pc # "filter" =>
           queries = Cardinality({k \in 0..(PagesFiltered - 1) :
                                     BatchBins(PageAt(source, k * BATCH_SIZE)) # {}})
    /\ queries <= PagesFiltered

\* a completed run over a page of two keyed records and a page of one record
\* with no bin: one query
C18_Witness ==
    /\ pc = "done"
    /\ Len(source) = 2
    /\ Cardinality(BatchBins(source[1])) = 2
    /\ BatchBins(source[2]) = {}
    /\ queries = 1

\* the batches the previous run rolled back at the page this run is at
RolledBackHere == {prev.rolled[i].batch : i \in {j \in 1..Len(prev.rolled) :
                                                  prev.rolled[j].offset = offset}}

\* the objects of a sequence, as a set
ObjectsOf(objs) == {objs[i] : i \in 1..Len(objs)}

\* a committed batch is in the table
CommitPersists ==
    (pc = "commit" /\ log' = "inserted") =>
        \A o \in ObjectsOf(new_objects) : \E k \in 1..Len(store') : store'[k] = Row(o)

NonNull(values) == SelectSeq(values, LAMBDA v : v # None)

\* the value is a whole number: a JSON integer or a string of decimal digits
IsIntegerValue(v) == v.kind = "int" \/ (v.kind = "str" /\ IsDigits(v.chars))

\* the value is a number: a JSON number, or a string of decimal digits with at
\* most one "." between them
IsRealValue(v) ==
    \/ v.kind \in {"int", "real"}
    \/ /\ v.kind = "str"
       /\ LET d == DotAt(v.chars)
          IN  IF d = 0 THEN IsDigits(v.chars)
              ELSE /\ IsDigits(SubSeq(v.chars, 1, d - 1))
                   /\ IsDigits(SubSeq(v.chars, d + 1, Len(v.chars)))

\* the type the rule gives a first non-null sample
TypeOfValue(v) ==
    IF IsIntegerValue(v) THEN "BIGINT"
    ELSE IF IsRealValue(v) THEN "NUMERIC"
    ELSE "TEXT"

\* C20, as stated: the result of infer_pg_type is the type of the first
\* non-null sample alone (integer when it is a whole number, real when it is
\* another number, text otherwise), whatever the later samples are, and text
\* for a list with no non-null sample.
C20_FirstNonNullDecides ==
    pc = "returned" =>
        pg_type = IF NonNull(samples) = <<>> THEN "TEXT"
                  ELSE TypeOfValue(NonNull(samples)[1])

\* the scan itself: the result is that of the one-element list of the first
\* non-null sample, and text when there is none
InferScanStopsAtFirstNonNull ==
    pc = "returned" =>
        pg_type = IF NonNull(samples) = <<>> THEN "TEXT"
                  ELSE infer_pg_type(<<NonNull(samples)[1]>>)

\* the rows of the table that hold the bin b
RowsOf(b) == {k \in 1..Len(store) : store[k].bin = b}

\* a batch that collides with the table is rolled back whole, and the process
\* goes on to its next page
FirstRolledBackOnCollision ==
    (pc = "commit" /\ pc' # pc /\ UniqueViolation(store, new_objects)) =>
        /\ store' = store
        /\ total_inserted' = total_inserted
        /\ log' = "db_error"
        /\ offset' = offset + BATCH_SIZE
        /\ pc' = "fetch"

PeerRolledBackOnCollision ==
    (peer.pc = "commit" /\ peer'.pc # peer.pc /\ UniqueViolation(store, peer.new_objects)) =>
        /\ store' = store
        /\ peer'.total_inserted = peer.total_inserted
        /\ peer'.log = "db_error"
        /\ peer'.offset = peer.offset + BATCH_SIZE
        /\ peer'.pc = "fetch"

\* C12: with two runs interleaved on one table, no non-null bin is ever in two
\* rows, also when both runs passed the duplicate filter for it before either
\* committed; the batch of the run that commits second is rolled back whole,
\* and that run goes on to fetch its next page.
C12_ConcurrentRunsOneRowPerBin ==
    /\ [](\A i, j \in 1..Len(store) :
             (i # j /\ store[i].bin # None) => store[i].bin # store[j].bin)
    /\ [][FirstRolledBackOnCollision /\ PeerRolledBackOnCollision]_vars

\* both runs passed the filter with the bin A at their first page; the first
\* inserted it, the second was rolled back on the unique index and is at its
\* next page; one row holds A
C12_Witness ==
    /\ faults = 0
    /\ \E i \in 1..Len(new_objects) : new_objects[i].bin = BinA
    /\ \E i \in 1..Len(peer.new_objects) : peer.new_objects[i].bin = BinA
    /\ log = "inserted" /\ offset = BATCH_SIZE
    /\ peer.log = "db_error" /\ peer.pc = "fetch" /\ peer.offset = BATCH_SIZE
    /\ Cardinality(RowsOf(BinA)) = 1

====
